---- MODULE Spec2Model ----
(***************************************************************************)
(* Model of the slurm_manager queue controller (src/src/slurm_manager.rs)  *)
(* and of the job record it manipulates (src/src/job.rs).                  *)
(*                                                                         *)
(* Option<T> is modelled as a sequence: <<>> is None, <<x>> is Some(x).    *)
(* Text exchanged with the scheduler is modelled at token level: a token   *)
(* is a record saying whether it parses as an i32 and, if so, its value.   *)
(***************************************************************************)
EXTENDS Integers, Sequences, FiniteSets, TLC

\* ------------------------------------------------------------------ bounds
MaxJobs == 2          \* number of add_job calls explored
MaxTime == 10         \* the clock is explored up to this many seconds
MaxQueueBound == 2    \* largest max_queue handed to SlurmManager::new
MaxCtlJobs == 1       \* jobs of each of two managers sharing a directory

\* --------------------------------------------------------- program constants
max_time_delta == 365 * 24 * 60     \* default duration of manage_jobs
RowFields == 8                      \* fields of one squeue row
SleepSecs == 5                      \* thread::sleep(Duration::from_secs(5))

\* ------------------------------------------------------------------ values
None == <<>>
Some(x) == <<x>>

\* the durations handed to manage_jobs: none, zero, one sleep interval
ForSecs == {None, Some(0), Some(SleepSecs)}

\* SlurmJobStatus
SlurmJobStatus == {"CREATED", "PENDING", "SUBMITTED", "FINISHED", "CRASHED"}

\* tokens of scheduler output
Tok(n) == [int |-> TRUE, val |-> n]
Str == [int |-> FALSE, val |-> 0]

Min(a, b) == IF a <= b THEN a ELSE b
Max(a, b) == IF a >= b THEN a ELSE b

\* --------------------------------------------------------------- job record
\* SlurmJobBuilder::build / SlurmJob::new: a fresh caller-held job.  The
\* completion predicate is a pure function of fixed parameters, so it is
\* represented by the boolean it returns.
\* id stands for the fresh uuid, wdir for the builder's working_directory; the
\* other fields are the defaults of SlurmJobBuilder::new.
build(id, check, wdir) ==
    [id |-> id, rec |-> 0, number |-> None, status |-> "CREATED", on_finished |-> check,
     command |-> "sleep 5", working_directory |-> wdir,
     output_file |-> Some("/dev/null"), error_file |-> Some("/dev/null"),
     max_run_time |-> None, memory |-> [unit |-> "M", size |-> 100], cpus |-> 1]

\* The jobs the caller holds: one with an always-true predicate (the default
\* do_nothing) and no working directory, one with an always-false predicate
\* and the working directory /tmp/.
CallerJobs ==
    [i \in 1..2 |-> build(i, i = 1, IF i = 1 THEN None ELSE Some("/tmp/"))]

\* Text is a sequence of pieces; += is concatenation; format! yields its
\* literal parts and its arguments as separate pieces.
\* a command section that does not leave the working directory again
generate_slurm_commands_no_popd(job) ==
    (IF job.working_directory # None
     THEN <<"pushd ", job.working_directory[1], "\n">> ELSE <<>>)
    \o <<job.command>> \o <<"\n">>

\* SlurmJob::generate_slurm_commands
generate_slurm_commands(job) ==
    LET ret0 == <<>>
        ret1 == IF job.working_directory # None
                THEN ret0 \o <<"pushd ", job.working_directory[1], "\n">>
                ELSE ret0
        ret2 == ret1 \o <<job.command>>
        ret3 == ret2 \o <<"\n">>
    IN IF job.working_directory # None THEN ret3 \o <<"popd\n">> ELSE ret3

\* SlurmJob::generate_slurm_script (the two backquotes around the date
\* command are written as apostrophes)
generate_slurm_script(job) ==
    <<"#!/bin/bash\n">>
    \o <<"#SBATCH --job-name=", ToString(job.id), "\n">>
    \o (IF job.output_file # None
        THEN <<"#SBATCH --output=", job.output_file[1], "\n">> ELSE <<>>)
    \o (IF job.error_file # None
        THEN <<"#SBATCH --error=", job.error_file[1], "\n">> ELSE <<>>)
    \o <<"#SBATCH --cpus-per-task=", ToString(job.cpus), "\n">>
    \o <<"#SBATCH --mem=", ToString(job.memory.size), job.memory.unit \o "\n">>
    \o (IF job.max_run_time # None
        THEN <<"#SBATCH --time=", job.max_run_time[1], "\n">> ELSE <<>>)
    \o <<"\n\n">>
    \o <<"echo START: 'date +%Y-%m-%dT%H:%M:%S%z'\n">>
    \o generate_slurm_commands(job)
    \o <<"\necho END: 'date +%Y-%m-%dT%H:%M:%S%z'\n">>

\* SlurmJob::set_status: unconditional overwrite
set_status(job, status) == [job EXCEPT !.status = status]

\* set_number that drops the assignment
set_number_forgets(job, number) == [panic |-> job.number # None, job |-> job]

\* SlurmJob::set_number: panics when a number is already present
set_number(job, number) ==
    IF job.number # None
    THEN [panic |-> TRUE, job |-> job]
    ELSE [panic |-> FALSE, job |-> [job EXCEPT !.number = Some(number)]]

\* SlurmJobPostProcessing::check
check(job) == job.on_finished

\* a post-processing that reads the predicate the wrong way round
run_post_processing_inverted(job) == IF check(job) THEN "CRASHED" ELSE "FINISHED"

\* SlurmJob::run_post_processing
run_post_processing(job) == IF check(job) THEN "FINISHED" ELSE "CRASHED"

\* -------------------------------------------------- list-running (squeue)
\* One well-formed row "%.i %.P %.j %.u %.t %.M %.D %R" for identifier n
Row(n) == <<Tok(n), Str, Str, Str, Str, Str, Tok(1), Str>>
Header == <<Str, Str, Str, Str, Str, Str, Str, Str>>
ShortRow == <<Tok(1), Str, Str, Str, Str, Str, Tok(1)>>
ArrayRow == <<Str, Str, Str, Str, Str, Str, Tok(1), Str>>
BadNodesRow == <<Tok(1), Str, Str, Str, Str, Str, Str, Str>>

RECURSIVE RowsOf(_)
RowsOf(R) ==
    IF R = {} THEN <<>>
    ELSE LET n == CHOOSE x \in R : \A y \in R : x <= y
         IN <<Row(n)>> \o RowsOf(R \ {n})

\* What std::process::Command::output() can give back for squeue.  rows is
\* stdout after split("\n"); an empty row <<>> is the empty string.
Listing(R, extra) ==
    [launched |-> TRUE, exit |-> 0, utf8 |-> TRUE,
     rows |-> <<Header>> \o RowsOf(R) \o extra \o << <<>> >>]
LaunchFailed == [launched |-> FALSE, exit |-> 0, utf8 |-> TRUE, rows |-> << <<>> >>]
AbnormalExit == [launched |-> TRUE, exit |-> 1, utf8 |-> TRUE, rows |-> << <<>> >>]
NotUtf8 == [launched |-> TRUE, exit |-> 0, utf8 |-> FALSE, rows |-> << <<>> >>]

\* issued: the identifiers the scheduler has handed out so far
SqueueResponses(issued) ==
    {LaunchFailed, AbnormalExit, NotUtf8}
    \cup {Listing(R, <<>>) : R \in SUBSET issued}
    \cup {Listing({}, <<r>>) : r \in {ShortRow, ArrayRow, BadNodesRow}}

\* Classification of a response, used only to state properties
SqueueClass(resp) ==
    IF ~resp.launched THEN "launch_failed"
    ELSE IF resp.exit # 0 THEN "abnormal_exit"
    ELSE IF ~resp.utf8 THEN "not_utf8"
    ELSE IF \E i \in 2..Len(resp.rows) :
               /\ Len(resp.rows[i]) # 0
               /\ (Len(resp.rows[i]) # RowFields \/ ~resp.rows[i][1].int)
         THEN "malformed"
    ELSE IF \E i \in 2..Len(resp.rows) :
               Len(resp.rows[i]) = RowFields /\ ~resp.rows[i][7].int
         THEN "bad_nodes"
    ELSE "ok"

\* SlurmManager::parse_squeue_row: panics unless the row has 8 fields and
\* fields 0 and 6 parse as i32; otherwise yields the identifier
parse_squeue_row(row) ==
    IF Len(row) # RowFields THEN [panic |-> TRUE, id |-> 0]
    ELSE IF ~row[1].int THEN [panic |-> TRUE, id |-> 0]
    ELSE IF ~row[7].int THEN [panic |-> TRUE, id |-> 0]
    ELSE [panic |-> FALSE, id |-> row[1].val]

\* the loop "for row in &split[1..]" of get_running_jobs
RECURSIVE ScanRows(_, _, _)
ScanRows(rows, i, running) ==
    IF i > Len(rows) THEN [tag |-> "Ok", set |-> running]
    ELSE IF Len(rows[i]) = 0 THEN ScanRows(rows, i + 1, running)
    ELSE LET p == parse_squeue_row(rows[i])
         IN IF p.panic THEN [tag |-> "panic", set |-> {}]
            ELSE ScanRows(rows, i + 1, running \cup {p.id})

\* get_running_jobs that turns a launch failure into an empty running set
get_running_jobs_default(resp) ==
    IF ~resp.launched THEN [tag |-> "Ok", set |-> {}]
    ELSE IF ~resp.utf8 THEN [tag |-> "panic", set |-> {}]
    ELSE ScanRows(resp.rows, 2, {})

\* SlurmManager::get_running_jobs: the exit status is never inspected
get_running_jobs(resp) ==
    IF ~resp.launched THEN [tag |-> "Err", set |-> {}]
    ELSE IF ~resp.utf8 THEN [tag |-> "panic", set |-> {}]
    ELSE ScanRows(resp.rows, 2, {})

\* Vec::remove(index)
Remove(seq, i) == SubSeq(seq, 1, i - 1) \o SubSeq(seq, i + 1, Len(seq))

\* indices of the jobs that are still listed, instead of those that are not
RECURSIVE DoneDesc_listed(_, _, _)
DoneDesc_listed(sched, running, i) ==
    IF i = 0 THEN <<>>
    ELSE IF sched[i].number[1] \in running
         THEN <<i>> \o DoneDesc_listed(sched, running, i - 1)
         ELSE DoneDesc_listed(sched, running, i - 1)

\* the indices collected in "done", already sorted and reversed
RECURSIVE DoneDesc(_, _, _)
DoneDesc(sched, running, i) ==
    IF i = 0 THEN <<>>
    ELSE IF sched[i].number[1] \notin running
         THEN <<i>> \o DoneDesc(sched, running, i - 1)
         ELSE DoneDesc(sched, running, i - 1)

\* a move loop that runs the post-processing of each job a second time
RECURSIVE MoveDone_checks_twice(_, _, _, _)
MoveDone_checks_twice(done, sched, fin, tr) ==
    IF done = <<>>
    THEN [scheduled |-> sched, finished |-> fin, trans |-> tr, checked |-> <<>>]
    ELSE LET finished_job == sched[Head(done)]
             status == run_post_processing(finished_job)
             rest == MoveDone_checks_twice(Tail(done), Remove(sched, Head(done)),
                                           Append(fin, set_status(finished_job, status)),
                                           tr \cup {<<finished_job.status, status>>})
         IN [rest EXCEPT !.checked = <<finished_job.rec, finished_job.rec>> \o @]

\* the loop "for elem in done" of check_on_jobs; checked lists the records
\* whose predicate run_post_processing evaluated, one entry per evaluation
RECURSIVE MoveDone(_, _, _, _)
MoveDone(done, sched, fin, tr) ==
    IF done = <<>>
    THEN [scheduled |-> sched, finished |-> fin, trans |-> tr, checked |-> <<>>]
    ELSE LET finished_job == sched[Head(done)]
             status == run_post_processing(finished_job)
             rest == MoveDone(Tail(done), Remove(sched, Head(done)),
                              Append(fin, set_status(finished_job, status)),
                              tr \cup {<<finished_job.status, status>>})
         IN [rest EXCEPT !.checked = <<finished_job.rec>> \o @]

\* SlurmManager::check_on_jobs on the response of the list-running call.
\* get_number() panics on a job without a number.
check_on_jobs(sched, fin, resp) ==
    LET running == get_running_jobs(resp)
        same == [tag |-> running.tag, scheduled |-> sched, finished |-> fin,
                 trans |-> {}, count |-> 0, checked |-> <<>>]
    IN IF running.tag # "Ok" THEN same
       ELSE IF \E i \in 1..Len(sched) : sched[i].number = None
            THEN [same EXCEPT !.tag = "panic"]
       ELSE LET done == DoneDesc(sched, running.set, Len(sched))
                m == MoveDone(done, sched, fin, {})
            IN [tag |-> "Ok", scheduled |-> m.scheduled, finished |-> m.finished,
                trans |-> m.trans, count |-> Len(done), checked |-> m.checked]

\* ---------------------------------------------------------- submit (sbatch)
\* What one schedule_job call can meet: the script file cannot be written
\* (the expect()s panic), sbatch cannot be launched, or sbatch answers with
\* out, its trimmed stdout after split(" ").
Submitted(n) ==
    [file_ok |-> TRUE, launched |-> TRUE, out |-> <<Str, Str, Str, Tok(n)>>]
EmptyAnswer == [file_ok |-> TRUE, launched |-> TRUE, out |-> <<Str>>]
SbatchLaunchFailed == [file_ok |-> TRUE, launched |-> FALSE, out |-> <<Str>>]
ScriptFileError == [file_ok |-> FALSE, launched |-> FALSE, out |-> <<Str>>]

\* The four things that can happen to one submission.  The scheduler numbers
\* the jobs it accepts consecutively: n is the identifier of the next one.
SbatchKinds == {"accepted", "no_id", "unlaunched", "no_script"}
Sbatch(kind, n) ==
    CASE kind = "accepted" -> Submitted(n)
      [] kind = "no_id" -> EmptyAnswer
      [] kind = "unlaunched" -> SbatchLaunchFailed
      [] OTHER -> ScriptFileError

\* schedule_job that leaves the status alone on success
schedule_job_keeps_status(job, resp) ==
    LET script == Some(generate_slurm_script(job))
    IN IF ~resp.file_ok
       THEN [tag |-> "panic", job |-> job, job_id |-> 0, trans |-> {}, script |-> None]
       ELSE IF ~resp.launched
       THEN [tag |-> "Err", job |-> job, job_id |-> 0, trans |-> {}, script |-> script]
       ELSE LET last == resp.out[Len(resp.out)]
            IN IF last.int
               THEN [tag |-> "Ok", job |-> job, job_id |-> last.val, trans |-> {},
                     script |-> script]
               ELSE [tag |-> "Err", job |-> job, job_id |-> 0, trans |-> {},
                     script |-> script]

\* SlurmManager::schedule_job: the rendered script is written to the script
\* file (script: what the file holds afterwards, None when it could not be
\* created), and the status becomes SUBMITTED only when the last token of the
\* answer parses as an i32
schedule_job(job, resp) ==
    LET script == Some(generate_slurm_script(job))
    IN IF ~resp.file_ok
       THEN [tag |-> "panic", job |-> job, job_id |-> 0, trans |-> {}, script |-> None]
       ELSE IF ~resp.launched
       THEN [tag |-> "Err", job |-> job, job_id |-> 0, trans |-> {}, script |-> script]
       ELSE LET last == resp.out[Len(resp.out)]
            IN IF last.int
               THEN [tag |-> "Ok", job |-> set_status(job, "SUBMITTED"),
                     job_id |-> last.val, trans |-> {<<job.status, "SUBMITTED">>},
                     script |-> script]
               ELSE [tag |-> "Err", job |-> job, job_id |-> 0, trans |-> {},
                     script |-> script]

\* a pop that takes the oldest element
pop_front(vec) == [job |-> Head(vec), rest |-> Tail(vec)]

\* Vec::pop on a non-empty vector: the last element and what remains
pop(vec) == [job |-> vec[Len(vec)], rest |-> SubSeq(vec, 1, Len(vec) - 1)]

\* an iteration that puts a job whose submission failed back into open
fill_step_requeue(st, kind) ==
    LET job == pop(st.open).job
        taken == [st EXCEPT !.open = pop(st.open).rest,
                            !.submits[job.rec] = @ + 1]
        r == schedule_job(job, Sbatch(kind, st.next_id))
        popped == [taken EXCEPT !.script = IF r.script = None THEN @ ELSE r.script]
    IN IF r.tag = "panic" THEN [popped EXCEPT !.tag = "panic"]
       ELSE IF r.tag = "Err"
            THEN [popped EXCEPT !.errors = @ + 1, !.open = Append(@, job)]
       ELSE LET n == set_number(r.job, r.job_id)
            IN IF n.panic
               THEN [popped EXCEPT !.tag = "panic", !.duplicate = TRUE,
                                   !.trans = @ \cup r.trans]
               ELSE [popped EXCEPT !.scheduled = Append(@, n.job),
                                   !.added_jobs = @ + 1,
                                   !.next_id = @ + 1,
                                   !.trans = @ \cup r.trans]

\* an iteration that leaves a copy of the numbered job in open
fill_step_keeps_copy(st, kind) ==
    LET job == pop(st.open).job
        taken == [st EXCEPT !.open = pop(st.open).rest,
                            !.submits[job.rec] = @ + 1]
        r == schedule_job(job, Sbatch(kind, st.next_id))
        popped == [taken EXCEPT !.script = IF r.script = None THEN @ ELSE r.script]
    IN IF r.tag = "panic" THEN [popped EXCEPT !.tag = "panic"]
       ELSE IF r.tag = "Err" THEN [popped EXCEPT !.errors = @ + 1]
       ELSE LET n == set_number(r.job, r.job_id)
            IN IF n.panic
               THEN [popped EXCEPT !.tag = "panic", !.duplicate = TRUE,
                                   !.trans = @ \cup r.trans]
               ELSE [popped EXCEPT !.scheduled = Append(@, n.job),
                                   !.open = Append(@, n.job),
                                   !.added_jobs = @ + 1,
                                   !.next_id = @ + 1,
                                   !.trans = @ \cup r.trans]

\* One iteration of the for loop of fill_up_queue with a job to pop.
\* st: [open, scheduled, errors, added_jobs, submits, trans, next_id, script,
\* duplicate, tag]; duplicate: set_number met a job that already had a number
fill_step(st, kind) ==
    LET job == pop(st.open).job
        taken == [st EXCEPT !.open = pop(st.open).rest,
                            !.submits[job.rec] = @ + 1]
        r == schedule_job(job, Sbatch(kind, st.next_id))
        popped == [taken EXCEPT !.script = IF r.script = None THEN @ ELSE r.script]
    IN IF r.tag = "panic" THEN [popped EXCEPT !.tag = "panic"]
       ELSE IF r.tag = "Err" THEN [popped EXCEPT !.errors = @ + 1]
       ELSE LET n == set_number(r.job, r.job_id)
            IN IF n.panic
               THEN [popped EXCEPT !.tag = "panic", !.duplicate = TRUE,
                                   !.trans = @ \cup r.trans]
               ELSE [popped EXCEPT !.scheduled = Append(@, n.job),
                                   !.added_jobs = @ + 1,
                                   !.next_id = @ + 1,
                                   !.trans = @ \cup r.trans]

\* "for _ in 0..queue_delta": iterations i..n, resps[i] answering iteration i.
\* (The state after an iteration is bound to s before the next one starts, so
\* that it is computed once.)
RECURSIVE FillLoop(_, _, _, _)
FillLoop(st, i, n, resps) ==
    IF i > n \/ st.tag # "run" THEN st
    ELSE IF st.open = <<>> THEN [st EXCEPT !.tag = "Ok"]
    ELSE CHOOSE out \in {FillLoop(s, i + 1, n, resps) : s \in {fill_step(st, resps[i])}} :
             TRUE

\* SlurmManager::fill_up_queue: tag is "Ok" or "Err" (the returned Result)
\* or "panic"
fill_up_queue(open, sched, maxq, subm, id, resps) ==
    LET delta == maxq - Len(sched)
        st0 == [open |-> open, scheduled |-> sched, errors |-> 0, added_jobs |-> 0,
                submits |-> subm, trans |-> {}, next_id |-> id, script |-> None,
                duplicate |-> FALSE, tag |-> "run"]
    IN CHOOSE out \in
           {IF st.tag # "run" THEN st
            ELSE IF st.errors = 0 THEN [st EXCEPT !.tag = "Ok"]
            ELSE [st EXCEPT !.tag = "Err"] : st \in {FillLoop(st0, 1, delta, resps)}} :
           TRUE

\* a return value that also waits for the scheduled jobs
manage_jobs_result_all_done(open, sched) == open = <<>> /\ sched = <<>>

\* the value manage_jobs returns
manage_jobs_result(open, sched) == open = <<>>

\* a break condition that only looks at the partitions
loop_exit_drained_only(t, deadline, open, sched) == open = <<>> /\ sched = <<>>

\* a break condition that only looks at the clock
loop_exit_deadline_only(t, deadline, open, sched) == t >= deadline

\* the break condition at the top of the loop of manage_jobs
loop_exit(t, deadline, open, sched) ==
    t >= deadline \/ (open = <<>> /\ sched = <<>>)

VARIABLES
    open_jobs,        \* SlurmManager.open_jobs      (Vec<SlurmJob>)
    scheduled_jobs,   \* SlurmManager.scheduled_jobs (Vec<SlurmJob>)
    finished_jobs,    \* SlurmManager.finished_jobs  (Vec<SlurmJob>)
    max_queue,        \* SlurmManager.max_queue      (i32)
    caller_jobs,      \* the caller's own job records
    pc,               \* position of the caller / of manage_jobs
    now,              \* Local::now(), in seconds
    end_time,         \* manage_jobs: end_time
    result,           \* value returned by the last manage_jobs call
    queue_delta,      \* fill_up_queue: queue_delta of the last call, if any
    squeue,           \* outcome class of the list-running call of the last step
    submits,          \* per enqueued record: number of schedule_job calls
    trans,            \* set of <<old, new>> pairs passed through set_status
    next_rec,         \* number of add_job calls so far
    next_id,          \* scheduler: identifier of the next accepted job
    script_file,      \* contents of the file TMP_DIR/script.slurm
    listed,           \* running set the last step's get_running_jobs returned
    ret,              \* Result of the last step's check_on_jobs / fill_up_queue
    evals,            \* per enqueued record: evaluations of its predicate
    duplicate_number, \* set_number panicked: "must not overwrite existing job number"
    ctl               \* two further SlurmManagers working in the same TMP_DIR

vars == <<open_jobs, scheduled_jobs, finished_jobs, max_queue, caller_jobs, pc,
          now, end_time, result, queue_delta, squeue, submits, trans, next_rec,
          next_id, script_file, listed, ret, evals, duplicate_number, ctl>>

\* Two managers (threads or processes) that use the same TMP_DIR; each has
\* jobs of its own.
Controllers == {1, 2}
OwnJobs(c) ==
    [i \in 1..MaxCtlJobs |->
        build(10 * c + i, TRUE, IF c = 1 THEN None ELSE Some("/tmp/"))]

\* no check_on_jobs or fill_up_queue call was made in the last step
NoCall == [tag |-> "none", count |-> 0]

\* SlurmManager::new(max_queue): any i32 is accepted
Init ==
    /\ open_jobs = <<>>
    /\ scheduled_jobs = <<>>
    /\ finished_jobs = <<>>
    /\ max_queue \in (0 - 1)..MaxQueueBound
    /\ caller_jobs = CallerJobs
    /\ pc = "idle"
    /\ now = 0
    /\ end_time = 0
    /\ result = None
    /\ queue_delta = None
    /\ squeue = "none"
    /\ submits = [r \in 1..MaxJobs |-> 0]
    /\ trans = {}
    /\ next_rec = 0
    /\ next_id = 1
    /\ script_file = <<>>
    /\ listed = None
    /\ ret = NoCall
    /\ evals = [r \in 1..MaxJobs |-> 0]
    /\ duplicate_number = FALSE
    /\ ctl = [c \in Controllers |->
                [open_jobs |-> <<>>, scheduled_jobs |-> <<>>, pc |-> "idle",
                 job |-> None, left |-> 0, added |-> 0, handed |-> None]]

\* an add_job that sets the status on the caller's record before cloning it
add_job_in_place(open, job, rec) ==
    LET pending == set_status(job, "PENDING")
    IN [open |-> Append(open, [pending EXCEPT !.rec = rec]), job |-> pending]

\* SlurmManager::add_job: clone, force PENDING, push; job is borrowed
\* immutably and is handed back as it was
add_job(open, job, rec) ==
    LET cloned == [job EXCEPT !.rec = rec]
    IN [open |-> Append(open, set_status(cloned, "PENDING")), job |-> job]

AddJob ==
    /\ pc = "idle"
    /\ next_rec < MaxJobs
    /\ \E i \in DOMAIN caller_jobs :
          \E a \in {add_job(open_jobs, caller_jobs[i], next_rec + 1)} :
             /\ open_jobs' = a.open
             /\ caller_jobs' = [caller_jobs EXCEPT ![i] = a.job]
             /\ trans' = trans \cup {<<caller_jobs[i].status, "PENDING">>}
    /\ next_rec' = next_rec + 1
    /\ squeue' = "none"
    /\ listed' = None
    /\ UNCHANGED evals
    /\ queue_delta' = None
    /\ UNCHANGED duplicate_number
    /\ ret' = NoCall
    /\ UNCHANGED <<scheduled_jobs, finished_jobs, max_queue, pc, now, end_time,
                   result, submits, next_id, script_file, ctl>>

\* The answers sbatch gives to the n iterations of one fill_up_queue call.
\* Only the first k iterations find a job to pop; the answers to the others
\* are never asked for and are fixed.
Answers(n, k) ==
    {[i \in 1..n |-> IF i <= k THEN f[i] ELSE "no_id"] :
        f \in [1..Min(n, k) -> SbatchKinds]}

\* a list-running call answered from responses, and the reconciliation that
\* follows it
ReconcileWith(responses, next_pc) ==
    \E resp \in responses :
        \E c \in {check_on_jobs(scheduled_jobs, finished_jobs, resp)} :
           /\ scheduled_jobs' = c.scheduled
           /\ finished_jobs' = c.finished
           /\ trans' = trans \cup c.trans
           /\ squeue' = SqueueClass(resp)
           /\ listed' = IF c.tag = "Ok" THEN Some(get_running_jobs(resp).set) ELSE None
           /\ ret' = [tag |-> c.tag, count |-> c.count]
           /\ evals' = [r \in DOMAIN evals |->
                           evals[r] + Cardinality({k \in DOMAIN c.checked :
                                                      c.checked[k] = r})]
           /\ pc' = IF c.tag = "panic" THEN "panicked" ELSE next_pc

Reconcile(next_pc) == ReconcileWith(SqueueResponses(1..(next_id - 1)), next_pc)

\* an admission round whose submissions are answered from answers
AdmitWith(answers, next_pc) ==
    \E resps \in answers :
        \E f \in {fill_up_queue(open_jobs, scheduled_jobs, max_queue, submits, next_id,
                                resps)} :
           /\ open_jobs' = f.open
           /\ scheduled_jobs' = f.scheduled
           /\ submits' = f.submits
           /\ next_id' = f.next_id
           /\ script_file' = IF f.script = None THEN script_file ELSE f.script[1]
           /\ trans' = trans \cup f.trans
           /\ queue_delta' = Some(max_queue - Len(scheduled_jobs))
           /\ ret' = [tag |-> f.tag, count |-> f.added_jobs]
           /\ duplicate_number' = f.duplicate
           /\ pc' = IF f.tag = "panic" THEN "panicked" ELSE next_pc

Admit(next_pc) ==
    AdmitWith(Answers(Max(max_queue - Len(scheduled_jobs), 0), Len(open_jobs)),
              next_pc)

\* check_on_jobs called directly (as the crate's tests do)
CheckOnJobs ==
    /\ pc = "idle"
    /\ Reconcile("idle")
    /\ queue_delta' = None
    /\ UNCHANGED duplicate_number
    /\ UNCHANGED <<open_jobs, max_queue, caller_jobs, now, end_time, result,
                   submits, next_rec, next_id, script_file, ctl>>

\* fill_up_queue called directly (as the crate's tests do)
FillUpQueue ==
    /\ pc = "idle"
    /\ Admit("idle")
    /\ squeue' = "none"
    /\ listed' = None
    /\ UNCHANGED evals
    /\ UNCHANGED <<finished_jobs, max_queue, caller_jobs, now, end_time, result,
                   next_rec, ctl>>

\* manage_jobs(for_sec): compute end_time and enter the loop
ManageJobsFor(durations) ==
    /\ pc = "idle"
    /\ \E for_sec \in durations :
          end_time' = now + (IF for_sec = None THEN max_time_delta ELSE for_sec[1])
    /\ pc' = "loop"
    /\ result' = None
    /\ squeue' = "none"
    /\ listed' = None
    /\ UNCHANGED evals
    /\ queue_delta' = None
    /\ UNCHANGED duplicate_number
    /\ ret' = NoCall
    /\ UNCHANGED <<open_jobs, scheduled_jobs, finished_jobs, max_queue, caller_jobs,
                   now, submits, trans, next_rec, next_id, script_file,
                   ctl>>

ManageJobs == ManageJobsFor(ForSecs)

\* top of the loop: break and return, or start a cycle
LoopTop ==
    /\ pc = "loop"
    /\ IF loop_exit(now, end_time, open_jobs, scheduled_jobs)
       THEN /\ pc' = "returned"
            /\ result' = Some(manage_jobs_result(open_jobs, scheduled_jobs))
       ELSE /\ pc' = "check"
            /\ result' = result
    /\ squeue' = "none"
    /\ listed' = None
    /\ UNCHANGED evals
    /\ queue_delta' = None
    /\ UNCHANGED duplicate_number
    /\ ret' = NoCall
    /\ UNCHANGED <<open_jobs, scheduled_jobs, finished_jobs, max_queue, caller_jobs,
                   now, end_time, submits, trans, next_rec, next_id, script_file,
                   ctl>>

\* the match on self.check_on_jobs(): both arms only log
LoopCheck ==
    /\ pc = "check"
    /\ Reconcile("fill")
    /\ queue_delta' = None
    /\ UNCHANGED duplicate_number
    /\ UNCHANGED <<open_jobs, max_queue, caller_jobs, now, end_time, result,
                   submits, next_rec, next_id, script_file, ctl>>

\* the match on self.fill_up_queue(): both arms only log
LoopFill ==
    /\ pc = "fill"
    /\ Admit("sleep")
    /\ squeue' = "none"
    /\ listed' = None
    /\ UNCHANGED evals
    /\ UNCHANGED <<finished_jobs, max_queue, caller_jobs, now, end_time, result,
                   next_rec, ctl>>

\* thread::sleep(5 s), then the next iteration
LoopSleep ==
    /\ pc = "sleep"
    /\ now + SleepSecs <= MaxTime
    /\ now' = now + SleepSecs
    /\ pc' = "loop"
    /\ squeue' = "none"
    /\ listed' = None
    /\ UNCHANGED evals
    /\ queue_delta' = None
    /\ UNCHANGED duplicate_number
    /\ ret' = NoCall
    /\ UNCHANGED <<open_jobs, scheduled_jobs, finished_jobs, max_queue, caller_jobs,
                   end_time, result, submits, trans, next_rec, next_id,
                   script_file, ctl>>

\* the caller takes the returned value and may call the manager again
Return ==
    /\ pc = "returned"
    /\ pc' = "idle"
    /\ squeue' = "none"
    /\ listed' = None
    /\ UNCHANGED evals
    /\ end_time' = 0
    /\ result' = None
    /\ queue_delta' = None
    /\ UNCHANGED duplicate_number
    /\ ret' = NoCall
    /\ UNCHANGED <<open_jobs, scheduled_jobs, finished_jobs, max_queue, caller_jobs,
                   now, submits, trans, next_rec, next_id, script_file,
                   ctl>>

Next ==
    \/ AddJob
    \/ CheckOnJobs
    \/ FillUpQueue
    \/ ManageJobs
    \/ LoopTop
    \/ LoopCheck
    \/ LoopFill
    \/ LoopSleep
    \/ Return

Spec == Init /\ [][Next]_vars

\* ------------------------------------------- two managers, one directory
\* Each manager c runs add_job and fill_up_queue on its own partitions
\* ctl[c]; schedule_job is followed in two steps, the writing of the script
\* file and the sbatch call that reads it, and the steps of the two managers
\* interleave.  handed records what sbatch read at the manager's last call.
manager_vars ==
    <<open_jobs, scheduled_jobs, finished_jobs, max_queue, caller_jobs, pc, now,
      end_time, result, queue_delta, squeue, submits, trans, next_rec, listed,
      ret, evals, duplicate_number>>

CtlAddJob(c) ==
    /\ ctl[c].pc = "idle"
    /\ ctl[c].added < MaxCtlJobs
    /\ \E a \in {add_job(ctl[c].open_jobs, OwnJobs(c)[ctl[c].added + 1],
                          ctl[c].added + 1)} :
          ctl' = [ctl EXCEPT ![c].open_jobs = a.open, ![c].added = @ + 1]
    /\ UNCHANGED <<manager_vars, next_id, script_file>>

\* fill_up_queue: queue_delta iterations lie ahead
CtlFillUpQueue(c) ==
    /\ ctl[c].pc = "idle"
    /\ ctl' = [ctl EXCEPT ![c].pc = "pop",
                          ![c].left = Max(max_queue - Len(ctl[c].scheduled_jobs), 0),
                          ![c].handed = None]
    /\ UNCHANGED <<manager_vars, next_id, script_file>>

\* one iteration begins: pop a job, or return
CtlPop(c) ==
    /\ ctl[c].pc = "pop"
    /\ IF ctl[c].left = 0 \/ ctl[c].open_jobs = <<>>
       THEN ctl' = [ctl EXCEPT ![c].pc = "idle", ![c].left = 0]
       ELSE ctl' = [ctl EXCEPT ![c].pc = "write",
                               ![c].left = @ - 1,
                               ![c].job = Some(pop(ctl[c].open_jobs).job),
                               ![c].open_jobs = pop(@).rest]
    /\ UNCHANGED <<manager_vars, next_id, script_file>>

\* schedule_job up to sync_all(): the script file now holds this job's script
CtlWriteScript(c) ==
    /\ ctl[c].pc = "write"
    /\ \E resp \in {ScriptFileError, EmptyAnswer} :
          \E r \in {schedule_job(ctl[c].job[1], resp)} :
             IF r.script = None
             THEN /\ ctl' = [ctl EXCEPT ![c].pc = "panicked"]
                  /\ UNCHANGED script_file
             ELSE /\ ctl' = [ctl EXCEPT ![c].pc = "sbatch"]
                  /\ script_file' = r.script[1]
    /\ UNCHANGED <<manager_vars, next_id>>

\* schedule_job from Command::new("sbatch") on: sbatch reads the script file
CtlSbatch(c) ==
    /\ ctl[c].pc = "sbatch"
    /\ \E kind \in SbatchKinds \ {"no_script"} :
          \E r \in {schedule_job(ctl[c].job[1], Sbatch(kind, next_id))} :
             /\ ctl' = [ctl EXCEPT
                          ![c].pc = "pop",
                          ![c].job = None,
                          ![c].handed = Some([job |-> ctl[c].job[1],
                                              script |-> script_file]),
                          ![c].scheduled_jobs =
                              IF r.tag = "Ok"
                              THEN Append(@, set_number(r.job, r.job_id).job)
                              ELSE @]
             /\ next_id' = IF r.tag = "Ok" THEN next_id + 1 ELSE next_id
    /\ UNCHANGED <<manager_vars, script_file>>

SharedDirNext ==
    \E c \in Controllers :
        \/ CtlAddJob(c)
        \/ CtlFillUpQueue(c)
        \/ CtlPop(c)
        \/ CtlWriteScript(c)
        \/ CtlSbatch(c)

SharedDirSpec == Init /\ [][SharedDirNext]_vars

\* ------------------------------------------------------ a running thread
\* Any scheduler behaviour, with manage_jobs called for a duration whose
\* deadline lies within the explored clock range, and the single thread of
\* manage_jobs never stopping for ever between two steps.
TermManageJobs ==
    ManageJobsFor({Some(d) : d \in {d \in {0, SleepSecs, 2 * SleepSecs} :
                                       now + d <= MaxTime}})

TermNext ==
    \/ AddJob
    \/ CheckOnJobs
    \/ FillUpQueue
    \/ TermManageJobs
    \/ LoopTop
    \/ LoopCheck
    \/ LoopFill
    \/ LoopSleep
    \/ Return

TermSpec ==
    /\ Init
    /\ [][TermNext]_vars
    /\ WF_vars(LoopTop)
    /\ WF_vars(LoopCheck)
    /\ WF_vars(LoopFill)
    /\ WF_vars(LoopSleep)

\* ------------------------------------------------- a cooperative scheduler
\* manage_jobs(None) with max_queue >= 1 against a scheduler that accepts
\* every submission and always answers the list-running call with a
\* well-formed listing.  The deadline lies max_time_delta seconds ahead, so the
\* clock is only followed up to MaxTime and stands still after that.
LiveInit == Init /\ max_queue >= 1

LiveManageJobs == ManageJobsFor({None})

LiveCheck ==
    /\ pc = "check"
    /\ ReconcileWith({Listing(R, <<>>) : R \in SUBSET (1..(next_id - 1))}, "fill")
    /\ queue_delta' = None
    /\ UNCHANGED duplicate_number
    /\ UNCHANGED <<open_jobs, max_queue, caller_jobs, now, end_time, result,
                   submits, next_rec, next_id, script_file, ctl>>

\* a cycle in which the listing no longer shows some scheduled job
JobLeaves == LiveCheck /\ Len(scheduled_jobs') < Len(scheduled_jobs)

LiveFill ==
    /\ pc = "fill"
    /\ AdmitWith({[i \in 1..Max(max_queue - Len(scheduled_jobs), 0) |-> "accepted"]},
                 "sleep")
    /\ squeue' = "none"
    /\ listed' = None
    /\ UNCHANGED evals
    /\ UNCHANGED <<finished_jobs, max_queue, caller_jobs, now, end_time, result,
                   next_rec, ctl>>

LiveSleep ==
    /\ pc = "sleep"
    /\ now' = IF now + SleepSecs <= MaxTime THEN now + SleepSecs ELSE now
    /\ pc' = "loop"
    /\ squeue' = "none"
    /\ listed' = None
    /\ UNCHANGED evals
    /\ queue_delta' = None
    /\ UNCHANGED duplicate_number
    /\ ret' = NoCall
    /\ UNCHANGED <<open_jobs, scheduled_jobs, finished_jobs, max_queue, caller_jobs,
                   end_time, result, submits, trans, next_rec, next_id,
                   script_file, ctl>>

LiveNext ==
    \/ AddJob
    \/ LiveManageJobs
    \/ LoopTop
    \/ LiveCheck
    \/ LiveFill
    \/ LiveSleep
    \/ Return

\* The single thread of manage_jobs keeps running, and every submitted job
\* eventually disappears from the listing.
LiveSpec ==
    /\ LiveInit
    /\ [][LiveNext]_vars
    /\ WF_vars(LoopTop)
    /\ WF_vars(LiveCheck)
    /\ WF_vars(LiveFill)
    /\ WF_vars(LiveSleep)
    /\ SF_vars(JobLeaves)

\* ------------------------------------------------------------- properties
Recs(seq) == {seq[i].rec : i \in DOMAIN seq}
Held == Recs(open_jobs) \cup Recs(scheduled_jobs) \cup Recs(finished_jobs)
Jobs(seq) == {seq[i] : i \in DOMAIN seq}
HeldJobs == Jobs(open_jobs) \cup Jobs(scheduled_jobs) \cup Jobs(finished_jobs)
Occurrences(seq, r) == Cardinality({i \in DOMAIN seq : seq[i].rec = r})
Enqueued == 1..next_rec

\* C1: once an admit step has run, the admission budget max_queue - |scheduled|
\* it computed is not negative and |scheduled| does not exceed max_queue.
C1_BudgetNeverNegative ==
    queue_delta # None =>
        /\ queue_delta[1] >= 0
        /\ Len(scheduled_jobs) <= max_queue

\* C2: between controller operations, every job held in open, scheduled or
\* finished has an external number exactly when its status is SUBMITTED,
\* FINISHED or CRASHED.
C2_NumberIffSubmitted ==
    \A job \in HeldJobs :
        (job.number # None) <=> (job.status \in {"SUBMITTED", "FINISHED", "CRASHED"})

C2_Witness ==
    /\ \E job \in Jobs(scheduled_jobs) : job.number # None /\ job.status = "SUBMITTED"
    /\ \E job \in Jobs(finished_jobs) : job.number # None /\ job.status = "CRASHED"

\* C3: every enqueued job is in exactly one of open, scheduled, finished as
\* long as the process lives: never in two of them and never in none.
C3_ExactlyOnePartition ==
    pc # "panicked" =>
        \A r \in Enqueued :
            Occurrences(open_jobs, r) + Occurrences(scheduled_jobs, r)
                + Occurrences(finished_jobs, r) = 1

\* C4: schedule_job is called at most once per enqueued record, and a record
\* that has been popped for submission is never in open again.
C4_SubmitAtMostOnce ==
    \A r \in Enqueued :
        /\ submits[r] <= 1
        /\ submits[r] = 1 => r \notin Recs(open_jobs)

C4_Witness ==
    /\ pc = "sleep"
    /\ \E r \in Enqueued : submits[r] = 1 /\ r \notin Held
    /\ \E r \in Enqueued : submits[r] = 1 /\ r \in Recs(scheduled_jobs)

\* C5: every status change made through set_status is one step of
\* CREATED -> PENDING -> SUBMITTED -> (FINISHED or CRASHED).
StatusSteps ==
    {<<"CREATED", "PENDING">>, <<"PENDING", "SUBMITTED">>,
     <<"SUBMITTED", "FINISHED">>, <<"SUBMITTED", "CRASHED">>}

C5_StatusStepByStep == trans \subseteq StatusSteps

C5_Witness == trans = StatusSteps

\* C6: a cycle of manage_jobs whose list-running call fails to launch moves no
\* job in its reconcile step and goes on to the admit step of the same cycle.
C6_ListErrorSkipsReconcile ==
    [][(pc = "check" /\ squeue' = "launch_failed") =>
          /\ scheduled_jobs' = scheduled_jobs
          /\ finished_jobs' = finished_jobs
          /\ pc' = "fill"]_vars

C6_Witness == pc = "fill" /\ squeue = "launch_failed" /\ scheduled_jobs # <<>>

\* C7: a list-running call that cannot be launched or that exits abnormally
\* with no job rows moves no scheduled job to finished.
C7_AbnormalExitMovesNothing ==
    [][squeue' \in {"launch_failed", "abnormal_exit"} =>
          /\ scheduled_jobs' = scheduled_jobs
          /\ finished_jobs' = finished_jobs]_vars

\* C8: a list-running answer with a row that has not exactly 8 fields or whose
\* identifier is not an integer never terminates the process.
C8_MalformedRowRecoverable == squeue = "malformed" => pc # "panicked"

C10_TrueMeansAllSubmitted ==
    (pc = "returned" /\ result = Some(TRUE)) =>
        \A r \in Enqueued :
            \E job \in Jobs(scheduled_jobs) \cup Jobs(finished_jobs) :
                job.rec = r /\ job.number # None

\* C11: with max_queue >= 1, the deadline ahead, every submission accepted,
\* every listing well-formed and every job eventually gone from the listing,
\* a call of manage_jobs eventually returns true with open and scheduled
\* empty and every enqueued job in finished.
C11_EventuallyDrained ==
    (pc = "loop") ~>
        (/\ pc = "returned"
         /\ result = Some(TRUE)
         /\ open_jobs = <<>>
         /\ scheduled_jobs = <<>>
         /\ Recs(finished_jobs) = Enqueued)

C11_Witness ==
    /\ pc = "returned"
    /\ result = Some(TRUE)
    /\ now > 0
    /\ next_rec = MaxJobs
    /\ Recs(finished_jobs) = Enqueued

\* C12: a call of manage_jobs comes to an end whatever the scheduler does
\* (it returns, or a panic unwinds out of it); and at the top of the loop,
\* once the clock has reached the deadline or open and scheduled are both
\* empty, it returns without starting a cycle and without any scheduler call.
C12_Terminates ==
    /\ (pc = "loop") ~> (pc \in {"returned", "panicked"})
    /\ [][(pc = "loop" /\ (now >= end_time
                             \/ (open_jobs = <<>> /\ scheduled_jobs = <<>>))) =>
              /\ pc' = "returned"
              /\ squeue' = "none"
              /\ UNCHANGED <<open_jobs, scheduled_jobs, finished_jobs, submits,
                             next_id, script_file>>]_vars

C12_Witness ==
    /\ pc = "returned"
    /\ end_time > 0
    /\ now >= end_time
    /\ scheduled_jobs # <<>>

\* C13: manage_jobs called without a duration runs until one year of seconds
\* (365 * 24 * 60 * 60 = 31,536,000) after the moment of the call.
C13_DefaultIsOneYear ==
    [][(pc = "idle" /\ pc' = "loop") =>
          end_time' = now + 365 * 24 * 60 * 60]_vars

\* C14: add_job can be called whatever max_queue and the partition sizes are;
\* it appends one PENDING copy of the given job to open (which may then hold
\* more than max_queue jobs) and leaves scheduled and finished as they were;
\* the caller's own records stay CREATED and without a number for ever.
C14_AddJobFrame ==
    /\ []((pc = "idle" /\ next_rec < MaxJobs) => ENABLED AddJob)
    /\ [][next_rec' # next_rec =>
              /\ Len(open_jobs') = Len(open_jobs) + 1
              /\ SubSeq(open_jobs', 1, Len(open_jobs)) = open_jobs
              /\ \E i \in DOMAIN caller_jobs :
                    open_jobs'[Len(open_jobs')] =
                        [caller_jobs[i] EXCEPT !.rec = next_rec', !.status = "PENDING"]
              /\ UNCHANGED <<scheduled_jobs, finished_jobs>>]_vars
    /\ [](\A i \in DOMAIN caller_jobs :
              caller_jobs[i].status = "CREATED" /\ caller_jobs[i].number = None)

C14_Witness ==
    /\ max_queue = 1
    /\ Len(open_jobs) = 2
    /\ open_jobs[2].status = "PENDING"

\* C15: a job that left the running set is FINISHED exactly when its
\* completion predicate holds and CRASHED exactly when it does not; no job in
\* open or scheduled carries either status.
C15_StatusFollowsPredicate ==
    /\ \A j \in Jobs(finished_jobs) :
          /\ j.status = "FINISHED" <=> check(j)
          /\ j.status = "CRASHED" <=> ~check(j)
    /\ \A j \in Jobs(open_jobs) \cup Jobs(scheduled_jobs) :
          j.status \notin {"FINISHED", "CRASHED"}

C15_Witness ==
    /\ \E j \in Jobs(finished_jobs) : check(j) /\ j.status = "FINISHED"
    /\ \E j \in Jobs(finished_jobs) : ~check(j) /\ j.status = "CRASHED"

\* C16: when two managers with jobs of their own work in the same script
\* directory, the script sbatch reads at each submit call is the one rendered
\* from the job the calling manager is submitting.
C16_OwnScriptSubmitted ==
    \A c \in Controllers :
        ctl[c].handed # None =>
            ctl[c].handed[1].script = generate_slurm_script(ctl[c].handed[1].job)

\* the pieces of a script between its START line and its END line
CommandSection(script) ==
    LET start == CHOOSE k \in DOMAIN script :
                     script[k] = "echo START: 'date +%Y-%m-%dT%H:%M:%S%z'\n"
        end == CHOOSE k \in DOMAIN script :
                   script[k] = "\necho END: 'date +%Y-%m-%dT%H:%M:%S%z'\n"
    IN SubSeq(script, start + 1, end - 1)

\* C17: the command section rendered for a job is the command and a newline
\* when the job has no working directory, and "pushd <dir>", newline, the
\* command, newline, "popd", newline when its working directory is <dir>.
C17_CommandSection ==
    script_file # <<>> =>
        \E i \in DOMAIN caller_jobs :
            LET job == caller_jobs[i]
            IN /\ script_file[3] = ToString(job.id)
               /\ CommandSection(script_file) = generate_slurm_commands(job)
               /\ CommandSection(script_file) =
                      IF job.working_directory = None
                      THEN <<job.command, "\n">>
                      ELSE <<"pushd ", job.working_directory[1], "\n",
                             job.command, "\n", "popd\n">>

C17_Witness ==
    /\ script_file # <<>>
    /\ script_file[3] = "2"
    /\ \E k \in DOMAIN script_file : script_file[k] = "pushd "

C19_AdmitFillsBudget ==
    [][(/\ queue_delta' # None
        /\ \A r \in 1..MaxJobs :
              submits'[r] # submits[r] => r \in Recs(scheduled_jobs')) =>
          LET n == Min(max_queue - Len(scheduled_jobs), Len(open_jobs))
          IN /\ Len(scheduled_jobs') = Len(scheduled_jobs) + n
             /\ Len(open_jobs') = Len(open_jobs) - n
             /\ ret' = [tag |-> "Ok", count |-> n]
             /\ (open_jobs' = <<>> \/ Len(scheduled_jobs') = max_queue)]_vars

\* C20: the completion predicate of a job has been evaluated once when the
\* job is in finished and never otherwise (the job is in open, is still in
\* scheduled, or was dropped after a failed submission), and it is evaluated
\* in the very step that moves the job from scheduled to finished.
C20_PredicateOncePerMove ==
    /\ [](\A r \in 1..MaxJobs :
              evals[r] = IF r \in Recs(finished_jobs) THEN 1 ELSE 0)
    /\ [][\A r \in 1..MaxJobs :
              evals'[r] # evals[r] =>
                  r \in Recs(scheduled_jobs) /\ r \in Recs(finished_jobs')]_vars

C20_Witness ==
    /\ \E r \in Enqueued : r \in Recs(finished_jobs) /\ evals[r] = 1
    /\ \E r \in Enqueued : submits[r] = 1 /\ r \notin Held /\ evals[r] = 0

\* C21: set_number panics on a job that already has a number, and no run of
\* add_job, check_on_jobs, fill_up_queue and manage_jobs ever calls it on
\* such a job, also when one caller job is enqueued several times: every job
\* waiting in open is without a number and the panic has not happened.
C21_NoDuplicateNumber ==
    /\ \A job \in HeldJobs : job.number # None => set_number(job, next_id).panic
    /\ \A job \in Jobs(open_jobs) : job.number = None
    /\ ~duplicate_number

C21_Witness ==
    /\ Len(scheduled_jobs) = 2
    /\ scheduled_jobs[1].id = scheduled_jobs[2].id
    /\ scheduled_jobs[1].number # None
    /\ scheduled_jobs[2].number # None
    /\ scheduled_jobs[1].number # scheduled_jobs[2].number

\* C22: fill_up_queue takes the most recently enqueued job first: a job it
\* pops was in open, every job left in open afterwards was enqueued before
\* it, and the jobs one call appends to scheduled are in the order latest
\* enqueued first.
C22_LatestEnqueuedFirst ==
    [][/\ \A r \in 1..MaxJobs :
              submits'[r] # submits[r] =>
                  /\ r \in Recs(open_jobs)
                  /\ \A q \in Recs(open_jobs') : q < r
       /\ queue_delta' # None =>
              \A i, j \in (Len(scheduled_jobs) + 1)..Len(scheduled_jobs') :
                  i < j => scheduled_jobs'[i].rec > scheduled_jobs'[j].rec]_vars

C22_Witness ==
    /\ queue_delta # None
    /\ Recs(open_jobs) = {1}
    /\ Recs(scheduled_jobs) = {2}
    /\ submits[1] = 0
====
